---- MODULE Spec2Model ----
(***************************************************************************)
(* Model of src/main.py: a routing agent that delegates a user question to *)
(* one of three sub-agents (knowledge, retrieval, metrics); the retrieval  *)
(* agent's tools shell out to `oc`, `yq` and `kube-health`, the metrics    *)
(* agent's tool calls an HTTP similarity service.                          *)
(*                                                                         *)
(* The reasoning engine (the language model behind each Agent) is external *)
(* and is modelled as a nondeterministic choice of the next action: a      *)
(* final answer or a call of one of the agent's registered tools with      *)
(* arguments of its choosing.  External processes and the HTTP service are *)
(* nondeterministic too: a process either exceeds its timeout or completes *)
(* with some exit status and some captured standard output.                *)
(***************************************************************************)
EXTENDS Integers, Sequences, FiniteSets, TLC

\* ------------------------------------------------------------------ bounds
\* longest captured standard output of kube-health, in bytes
MaxLen == 2
\* model requests one top-level query may make before the run is stopped
MaxRequests == 3

\* ------------------------------------------------------------- input sets
Commands == {"oc", "yq", "kube-health"}
Kinds == {"pod", "node"}
Namespaces == {"default"}
Names == {"web"}
NoArg == "<absent>"
Queries == {"list all namespaces", "What's the weather today?"}
EngineTexts == {"<answer>", "<refusal>"}
Bytes == {"a", "\n", "\r"}
Stdouts == UNION {[1..n -> Bytes] : n \in 0..MaxLen}
ExitStatuses == {0, 1}

\* what `oc` prints is only passed on: nothing, one line, two lines
OcStdouts == {<<>>, <<"a">>, <<"a", "\n", "a", "\n">>}

\* outcome of one external process: it exceeds the timeout, or completes
Outcomes(stdouts) ==
    [timeout : {FALSE}, status : ExitStatuses, stdout : stdouts]
        \cup {[timeout |-> TRUE, status |-> 0, stdout |-> <<>>]}
OcOutcomes == Outcomes(OcStdouts)
KubeHealthOutcomes == Outcomes(Stdouts)
NoProc == [timeout |-> FALSE, status |-> 0, stdout |-> <<>>]

\* one element of the JSON array the similarity service answers with
JsonElems == {[has_series |-> TRUE, series |-> <<"up">>],
              [has_series |-> TRUE, series |-> <<>>],
              [has_series |-> FALSE, series |-> <<>>]}
JsonBodies == {<<>>} \cup {<<e>> : e \in JsonElems}
\* outcome of the HTTP GET: a transport failure, an error status, or 2xx
HttpOutcomes ==
    {[kind |-> "RequestError", data |-> <<>>],
     [kind |-> "HTTPStatusError", data |-> <<>>]}
        \cup [kind : {"ok"}, data : JsonBodies]
NoHttp == [kind |-> "none", data |-> <<>>]

NoArgs == [kind |-> NoArg, namespace |-> NoArg, name |-> NoArg, query |-> NoArg]

VARIABLES
    query,        \* sys.argv[1], the user's question
    path,         \* the commands resolvable on PATH
    pc,           \* "routing", "sub", "done" or "crashed"
    agent,        \* the sub-agent that is running, or "none"
    subQuery,     \* the prompt the running sub-agent was given
    usageRef,     \* the Usage object the running sub-agent accumulates into
    usage,        \* the Usage objects' request counters
    routingReqs,  \* history: requests made by the routing agent
    nestedReqs,   \* history: requests made by sub-agent runs
    invoked,      \* history: the routing agent's tools called in this run
    last,         \* the most recent tool handler invocation of a sub-agent
    exc,          \* the exception that escaped run_sync, "" if none
    answer        \* result.data

vars == <<query, path, pc, agent, subQuery, usageRef, usage, routingReqs,
          nestedReqs, invoked, last, exc, answer>>

\* ---------------------------------------------------------- handler results
ReturnStr(t) ==
    [raised |-> FALSE, exc |-> "", type |-> "str", text |-> t,
     bytes |-> <<>>, list |-> <<>>]
ReturnBytes(b) ==
    [raised |-> FALSE, exc |-> "", type |-> "bytes", text |-> "",
     bytes |-> b, list |-> <<>>]
ReturnList(l) ==
    [raised |-> FALSE, exc |-> "", type |-> "list", text |-> "",
     bytes |-> <<>>, list |-> l]
ReturnNone ==
    [raised |-> FALSE, exc |-> "", type |-> "NoneType", text |-> "",
     bytes |-> <<>>, list |-> <<>>]
Raise(e) ==
    [raised |-> TRUE, exc |-> e, type |-> "", text |-> "",
     bytes |-> <<>>, list |-> <<>>]

OcNotFound == "Error: 'oc' command not found in PATH"
OcYqNotFound == "Error: Required commands ('oc' and/or 'yq') not found in PATH"
KubeHealthNotFound == "Error: 'kube-health' command not found in PATH"
ObjectNotFound == "Error: The object you are looking for does not exist"

\* which(command) is not None: with every command available
is_command_available_always(command) == TRUE

is_command_available(command) == command \in path

\* subprocess.run(..., check=True): a non-zero exit raises
RunProcessChecked(proc) ==
    IF proc.timeout THEN Raise("TimeoutExpired")
    ELSE IF proc.status # 0 THEN Raise("CalledProcessError")
    ELSE ReturnBytes(proc.stdout)

\* subprocess.run(cmd, capture_output=True, timeout=2): the CompletedProcess's
\* stdout, or TimeoutExpired; the exit status is not looked at
RunProcess(proc) ==
    IF proc.timeout THEN Raise("TimeoutExpired") ELSE ReturnBytes(proc.stdout)

\* the handlers' common tail: spawn the command and return output.stdout
Exec(shell, argv, proc) ==
    [res |-> RunProcess(proc),
     spawned |-> <<[shell |-> shell, argv |-> argv]>>]
NotSpawned(res) == [res |-> res, spawned |-> <<>>]

\* bytes.splitlines(): lines end at \n, \r or \r\n; no trailing empty line
RECURSIVE SplitFrom(_, _, _)
SplitFrom(s, i, cur) ==
    IF i > Len(s) THEN (IF cur = <<>> THEN <<>> ELSE <<cur>>)
    ELSE IF s[i] = "\n" THEN <<cur>> \o SplitFrom(s, i + 1, <<>>)
    ELSE IF s[i] = "\r" THEN
        IF i < Len(s) /\ s[i + 1] = "\n"
        THEN <<cur>> \o SplitFrom(s, i + 2, <<>>)
        ELSE <<cur>> \o SplitFrom(s, i + 1, <<>>)
    ELSE SplitFrom(s, i + 1, Append(cur, s[i]))
splitlines(s) == SplitFrom(s, 1, <<>>)

\* ------------------------------------------------- retrieval_agent's tools
get_namespaces(proc) ==
    IF ~is_command_available("oc") THEN NotSpawned(ReturnStr(OcNotFound))
    ELSE Exec(FALSE, <<"oc", "get", "namespaces">>, proc)

get_object_cluster_wide_list(kind, proc) ==
    IF ~is_command_available("oc") THEN NotSpawned(ReturnStr(OcNotFound))
    ELSE Exec(FALSE, <<"oc", "get", kind, "-A", "-o", "name">>, proc)

get_object_namespace_list(kind, namespace, proc) ==
    IF ~is_command_available("oc") THEN NotSpawned(ReturnStr(OcNotFound))
    ELSE Exec(FALSE, <<"oc", "get", kind, "-n", namespace, "-o", "name">>, proc)

get_nonrunning_pods(proc) ==
    IF ~is_command_available("oc") THEN NotSpawned(ReturnStr(OcNotFound))
    ELSE Exec(FALSE,
              <<"oc", "get", "pods", "-A", "--field-selector",
                "status.phase!=Running", "-o",
                "custom-columns=NAMESPACE:.metadata.namespace,NAME:.metadata.name">>,
              proc)

get_object_details(namespace, kind, name, proc) ==
    IF ~is_command_available("oc") THEN NotSpawned(ReturnStr(OcNotFound))
    ELSE Exec(FALSE, <<"oc", "get", kind, "-n", namespace, name, "-o", "yaml">>,
              proc)

get_pod_list(namespace, proc) ==
    IF ~is_command_available("oc") THEN NotSpawned(ReturnStr(OcNotFound))
    ELSE Exec(FALSE, <<"oc", "get", "pods", "-n", namespace, "-o", "name">>, proc)

\* one shell pipeline: proc is the outcome of the whole `oc ... | yq ...`
get_pod_status(namespace, pod, proc) ==
    IF ~is_command_available("oc") \/ ~is_command_available("yq")
    THEN NotSpawned(ReturnStr(OcYqNotFound))
    ELSE Exec(TRUE,
              <<"oc", "get", "pod", "-n", namespace, pod, "-o",
                "jsonpath='{.status}'", "|", "yq", "-p", "json", "-o", "yaml">>,
              proc)

\* nlines < 2, with the comparison off by one
TooFewLinesOffByOne(nlines) == nlines < 1

TooFewLines(nlines) == nlines < 2

\* namespace is kwargs.get('namespace', None): NoArg when the call gives none
get_object_health(kind, name, namespace, proc) ==
    IF ~is_command_available("kube-health")
    THEN NotSpawned(ReturnStr(KubeHealthNotFound))
    ELSE LET output ==
                 IF namespace = NoArg
                 THEN Exec(TRUE, <<"kube-health", "-H", kind, "/", name>>, proc)
                 ELSE Exec(TRUE,
                           <<"kube-health", "-n", namespace, "-H", kind, "/",
                             name>>,
                           proc)
         IN  IF output.res.raised THEN output
             ELSE IF TooFewLines(Len(splitlines(output.res.bytes)))
                  THEN [res |-> ReturnStr(ObjectNotFound),
                        spawned |-> output.spawned]
                  ELSE output

\* --------------------------------------------------- metrics_agent's tool
\* the except clauses, with the HTTPStatusError clause missing
MetricsHandledRequestOnly(e) == e = "RequestError"

MetricsHandled(e) == e \in {"RequestError", "HTTPStatusError"}

\* client.get raises RequestError, raise_for_status raises HTTPStatusError,
\* data[0] raises IndexError on [], ["series"] raises KeyError; a handled
\* exception is printed and the function falls off its end, returning None
get_existing_metrics(original_query, http) ==
    LET body ==
            IF http.kind # "ok" THEN Raise(http.kind)
            ELSE IF Len(http.data) = 0 THEN Raise("IndexError")
            ELSE IF ~http.data[1].has_series THEN Raise("KeyError")
            ELSE ReturnList(http.data[1].series)
    IN  NotSpawned(IF body.raised /\ MetricsHandled(body.exc)
                   THEN ReturnNone ELSE body)

\* ------------------------------------------------------------------- state
NoCall ==
    [tool |-> "none", args |-> NoArgs, proc |-> NoProc, http |-> NoHttp,
     res |-> ReturnNone, spawned |-> <<>>]

\* the process starts with some question and some PATH; run_sync is entered
Init ==
    /\ query \in Queries
    /\ path \in SUBSET Commands
    /\ pc = "routing"
    /\ agent = "none"
    /\ subQuery = NoArg
    /\ usageRef = "ctx"
    /\ usage = [ctx |-> 0, fresh |-> 0]
    /\ routingReqs = 0
    /\ nestedReqs = 0
    /\ invoked = {}
    /\ last = NoCall
    /\ exc = ""
    /\ answer = NoArg

\* ---------------------------------------------------------- routing_agent
\* one request of the routing agent's run to its model
RoutingRequest ==
    /\ pc = "routing"
    /\ usage.ctx < MaxRequests
    /\ routingReqs' = routingReqs + 1

\* agent.run(original_query) with no usage argument: a Usage of its own
RunUsageArgOmitted(ctxUsage) == "fresh"

\* agent.run(original_query, usage=ctx.usage)
RunUsageArg(ctxUsage) == ctxUsage

\* the engine calls one of the routing agent's tools with an original_query
\* of its choosing; the tool starts the sub-agent's run on that text
Delegate(tool, sub, original_query) ==
    /\ RoutingRequest
    /\ usage' = [usage EXCEPT !.ctx = @ + 1, !.fresh = 0]
    /\ invoked' = invoked \cup {tool}
    /\ agent' = sub
    /\ subQuery' = original_query
    /\ usageRef' = RunUsageArg("ctx")
    /\ pc' = "sub"
    /\ UNCHANGED <<query, path, nestedReqs, last, exc, answer>>

knowledge_tool ==
    \E original_query \in Queries :
        Delegate("knowledge_tool", "knowledge", original_query)

retrieval_tool ==
    \E original_query \in Queries :
        Delegate("retrieval_tool", "retrieval", original_query)

metrics_tool ==
    \E original_query \in Queries :
        Delegate("metrics_tool", "metrics", original_query)

\* the engine gives the routing agent's final answer: run_sync returns and
\* result.data and result.usage() are printed
RoutingAnswer ==
    /\ RoutingRequest
    /\ \E text \in EngineTexts : answer' = text
    /\ usage' = [usage EXCEPT !.ctx = @ + 1]
    /\ pc' = "done"
    /\ UNCHANGED <<query, path, agent, subQuery, usageRef, nestedReqs, invoked,
                   last, exc>>

\* -------------------------------------------------------------- sub-agents
\* one request of the running sub-agent to its model
SubRequest ==
    /\ pc = "sub"
    /\ usage[usageRef] < MaxRequests
    /\ usage' = [usage EXCEPT ![usageRef] = @ + 1]
    /\ nestedReqs' = nestedReqs + 1

\* the sub-agent's engine gives its final answer: the routing agent's tool
\* returns r.data to the routing agent's engine
SubAnswer ==
    /\ SubRequest
    /\ pc' = "routing"
    /\ agent' = "none"
    /\ subQuery' = NoArg
    /\ usageRef' = "ctx"
    /\ last' = NoCall
    /\ UNCHANGED <<query, path, routingReqs, invoked, exc, answer>>

\* the sub-agent's engine calls a tool: the handler runs; what it returns is
\* fed back to the engine, what it raises leaves the sub-agent's run, the
\* routing agent's tool and run_sync.  A process has an outcome only if the
\* handler spawned it
Invoke(tool, args, proc, http, out) ==
    /\ SubRequest
    /\ last' = [tool |-> tool, args |-> args,
                proc |-> IF out.spawned = <<>> THEN NoProc ELSE proc,
                http |-> http, res |-> out.res, spawned |-> out.spawned]
    /\ IF out.res.raised
       THEN pc' = "crashed" /\ exc' = out.res.exc
       ELSE UNCHANGED <<pc, exc>>
    /\ UNCHANGED <<query, path, agent, subQuery, usageRef, routingReqs,
                   invoked, answer>>

GetNamespaces ==
    /\ agent = "retrieval"
    /\ \E proc \in OcOutcomes :
        Invoke("get_namespaces", NoArgs, proc, NoHttp, get_namespaces(proc))

GetObjectClusterWideList ==
    /\ agent = "retrieval"
    /\ \E kind \in Kinds, proc \in OcOutcomes :
        Invoke("get_object_cluster_wide_list", [NoArgs EXCEPT !.kind = kind],
               proc, NoHttp, get_object_cluster_wide_list(kind, proc))

GetObjectNamespaceList ==
    /\ agent = "retrieval"
    /\ \E kind \in Kinds, namespace \in Namespaces, proc \in OcOutcomes :
        Invoke("get_object_namespace_list",
               [NoArgs EXCEPT !.kind = kind, !.namespace = namespace],
               proc, NoHttp, get_object_namespace_list(kind, namespace, proc))

GetNonrunningPods ==
    /\ agent = "retrieval"
    /\ \E proc \in OcOutcomes :
        Invoke("get_nonrunning_pods", NoArgs, proc, NoHttp,
               get_nonrunning_pods(proc))

GetObjectDetails ==
    /\ agent = "retrieval"
    /\ \E namespace \in Namespaces, kind \in Kinds, name \in Names,
          proc \in OcOutcomes :
        Invoke("get_object_details",
               [NoArgs EXCEPT !.kind = kind, !.namespace = namespace,
                              !.name = name],
               proc, NoHttp, get_object_details(namespace, kind, name, proc))

GetPodList ==
    /\ agent = "retrieval"
    /\ \E namespace \in Namespaces, proc \in OcOutcomes :
        Invoke("get_pod_list", [NoArgs EXCEPT !.namespace = namespace],
               proc, NoHttp, get_pod_list(namespace, proc))

GetPodStatus ==
    /\ agent = "retrieval"
    /\ \E namespace \in Namespaces, pod \in Names, proc \in OcOutcomes :
        Invoke("get_pod_status",
               [NoArgs EXCEPT !.namespace = namespace, !.name = pod],
               proc, NoHttp, get_pod_status(namespace, pod, proc))

GetObjectHealth ==
    /\ agent = "retrieval"
    /\ \E kind \in Kinds, name \in Names,
          namespace \in Namespaces \cup {NoArg}, proc \in KubeHealthOutcomes :
        Invoke("get_object_health",
               [NoArgs EXCEPT !.kind = kind, !.namespace = namespace,
                              !.name = name],
               proc, NoHttp, get_object_health(kind, name, namespace, proc))

GetExistingMetrics ==
    /\ agent = "metrics"
    /\ \E original_query \in Queries, http \in HttpOutcomes :
        Invoke("get_existing_metrics", [NoArgs EXCEPT !.query = original_query],
               NoProc, http, get_existing_metrics(original_query, http))

\* no usage_limits is passed to run or run_sync: a run that has made
\* MaxRequests requests is stopped by UsageLimitExceeded, which nothing
\* catches
LimitExceeded ==
    /\ \/ pc = "routing" /\ usage.ctx >= MaxRequests
       \/ pc = "sub" /\ usage[usageRef] >= MaxRequests
    /\ pc' = "crashed"
    /\ exc' = "UsageLimitExceeded"
    /\ UNCHANGED <<query, path, agent, subQuery, usageRef, usage, routingReqs,
                   nestedReqs, invoked, last, answer>>

Next ==
    \/ knowledge_tool
    \/ retrieval_tool
    \/ metrics_tool
    \/ RoutingAnswer
    \/ SubAnswer
    \/ GetNamespaces
    \/ GetObjectClusterWideList
    \/ GetObjectNamespaceList
    \/ GetNonrunningPods
    \/ GetObjectDetails
    \/ GetPodList
    \/ GetPodStatus
    \/ GetObjectHealth
    \/ GetExistingMetrics
    \/ LimitExceeded

Spec == Init /\ [][Next]_vars

\* the shape of the state
TypeOK ==
    /\ query \in Queries
    /\ path \subseteq Commands
    /\ pc \in {"routing", "sub", "done", "crashed"}
    /\ agent \in {"none", "knowledge", "retrieval", "metrics"}
    /\ subQuery \in Queries \cup {NoArg}
    /\ usageRef \in {"ctx", "fresh"}
    /\ usage \in [ctx : 0..MaxRequests, fresh : 0..MaxRequests]
    /\ routingReqs \in 0..MaxRequests
    /\ nestedReqs \in 0..MaxRequests
    /\ invoked \subseteq {"knowledge_tool", "retrieval_tool", "metrics_tool"}
    /\ last.tool \in
           {"none", "get_namespaces", "get_object_cluster_wide_list",
            "get_object_namespace_list", "get_nonrunning_pods",
            "get_object_details", "get_pod_list", "get_pod_status",
            "get_object_health", "get_existing_metrics"}
    /\ last.proc \in KubeHealthOutcomes \cup OcOutcomes
    /\ last.http \in HttpOutcomes \cup {NoHttp}
    /\ Len(last.spawned) \in {0, 1}
    /\ exc \in {"", "TimeoutExpired", "IndexError", "KeyError",
                "UsageLimitExceeded"}
    /\ answer \in EngineTexts \cup {NoArg}

\* ------------------------------------------------------------------ claims
\* The terms the properties are stated in (ProcessTools, Requires,
\* NotFoundText, LineCount, Completed, InDomain) are written down from the
\* properties, not from the handlers' bodies.

\* the tools registered on retrieval_agent
ProcessTools ==
    {"get_namespaces", "get_object_cluster_wide_list",
     "get_object_namespace_list", "get_nonrunning_pods", "get_object_details",
     "get_pod_list", "get_pod_status", "get_object_health"}

\* the external commands a tool handler depends on
Requires(tool) ==
    CASE tool = "get_pod_status" -> {"oc", "yq"}
      [] tool = "get_object_health" -> {"kube-health"}
      [] OTHER -> {"oc"}

\* the handler's 'command not found' text
NotFoundText(tool) ==
    CASE tool = "get_pod_status" -> OcYqNotFound
      [] tool = "get_object_health" -> KubeHealthNotFound
      [] OTHER -> OcNotFound

\* the number of lines of a captured output, counted from its line ends: a
\* line ends at \n, at \r\n and at a \r no \n follows; bytes after the last
\* line end are one more line
LineCount(s) ==
    Cardinality({i \in 1..Len(s) :
                    \/ s[i] = "\n"
                    \/ s[i] = "\r" /\ (i = Len(s) \/ s[i + 1] # "\n")})
        + (IF Len(s) > 0 /\ s[Len(s)] \notin {"\n", "\r"} THEN 1 ELSE 0)

\* a completed invocation of a handler whose commands are all on PATH
Completed ==
    /\ last.tool \in ProcessTools
    /\ Requires(last.tool) \subseteq path
    /\ ~last.proc.timeout

InDomain(q) == q # "What's the weather today?"

\* C1: a tool handler one of whose commands is not on PATH returns its
\* 'command not found' text, does not raise and spawns no process.
C1_CommandUnavailable ==
    (last.tool \in ProcessTools /\ ~(Requires(last.tool) \subseteq path)) =>
        /\ ~last.res.raised
        /\ last.res.type = "str"
        /\ last.res.text = NotFoundText(last.tool)
        /\ last.spawned = <<>>

C1_Witness ==
    /\ last.tool = "get_pod_status"
    /\ "oc" \in path
    /\ "yq" \notin path
    /\ last.res.text = OcYqNotFound
    /\ last.spawned = <<>>

\* C2: when the handler's process exceeds its timeout the handler returns a
\* text result, and no TimeoutExpired leaves the handler or the top-level run.
C2_TimeoutCaught ==
    /\ (last.tool \in ProcessTools /\ last.spawned # <<>> /\ last.proc.timeout)
           => (~last.res.raised /\ last.res.type = "str")
    /\ exc # "TimeoutExpired"

\* C3: get_object_health, its command on PATH and completed: an output of 0
\* or 1 lines gives the 'object does not exist' text, an output of 2 or more
\* lines is returned unchanged, with and without a namespace.
C3_HealthLineRule ==
    (last.tool = "get_object_health" /\ Completed) =>
        /\ ~last.res.raised
        /\ IF LineCount(last.proc.stdout) < 2
           THEN last.res.type = "str" /\ last.res.text = ObjectNotFound
           ELSE last.res.type = "bytes" /\ last.res.bytes = last.proc.stdout

C3_Witness ==
    /\ last.tool = "get_object_health"
    /\ last.args.namespace # NoArg
    /\ Completed
    /\ LineCount(last.proc.stdout) >= 2
    /\ last.res.bytes = last.proc.stdout

\* C4: get_existing_metrics returns None and raises nothing when the request
\* fails in transport or the response has an error status.
C4_MetricsFailureIsNone ==
    /\ (last.tool = "get_existing_metrics"
        /\ last.http.kind \in {"RequestError", "HTTPStatusError"})
           => (~last.res.raised /\ last.res.type = "NoneType")
    /\ exc \notin {"RequestError", "HTTPStatusError"}

C4_Witness ==
    /\ last.tool = "get_existing_metrics"
    /\ last.http.kind = "HTTPStatusError"
    /\ last.res.type = "NoneType"
    /\ pc = "sub"

\* C5: get_existing_metrics returns an absent or empty result when the
\* service answers 2xx with an empty JSON array; nothing escapes the handler.
C5_EmptyArrayIsAbsent ==
    /\ (last.tool = "get_existing_metrics" /\ last.http.kind = "ok"
        /\ last.http.data = <<>>)
           => (~last.res.raised /\ last.res.type \in {"NoneType", "list"})
    /\ exc # "IndexError"

\* C6: the prompt a sub-agent runs on is the user's query, unchanged.
C6_QueryForwardedVerbatim == agent # "none" => subQuery = query

\* C7: the usage the routing agent reports never decreases and counts every
\* request of the routing agent and of every nested sub-agent run.
C7_SharedUsage ==
    /\ [][usage'.ctx >= usage.ctx]_vars
    /\ [](usage.ctx = routingReqs + nestedReqs)

C7_Witness ==
    /\ pc = "done"
    /\ nestedReqs >= 1
    /\ routingReqs >= 2
    /\ usage.ctx = routingReqs + nestedReqs

\* C8: a sub-agent run that reaches the request ceiling ends with an answer:
\* it is not ended by an exception.
C8_CeilingIsAnAnswer == ~(agent # "none" /\ exc = "UsageLimitExceeded")

\* C9: for a query outside the domain no sub-agent tool is invoked and the
\* answer is the refusal message.
C9_OutOfDomainRefused ==
    ~InDomain(query) =>
        /\ invoked = {}
        /\ pc = "done" => answer = "<refusal>"

\* C10: a handler whose commands are on PATH and whose process completes
\* returns the captured standard output whatever the exit status, and does
\* not raise (get_object_health: unless the output has fewer than two lines).
C10_NonZeroExitReturnsStdout ==
    Completed =>
        /\ ~last.res.raised
        /\ IF last.tool = "get_object_health" /\ LineCount(last.proc.stdout) < 2
           THEN last.res.text = ObjectNotFound
           ELSE last.res.type = "bytes" /\ last.res.bytes = last.proc.stdout

C10_Witness ==
    /\ last.tool = "get_pod_status"
    /\ Completed
    /\ last.proc.status = 1
    /\ last.proc.stdout # <<>>
    /\ last.res.bytes = last.proc.stdout

====
